---- MODULE Spec2Model ----
(***************************************************************************)
(* A state-machine model of src/tts/server.py: the two FastAPI handlers    *)
(* generate_audio (POST /generate) and transcribe_audio (POST /transcribe),*)
(* the temporary directory they share, and the two model collaborators     *)
(* (Silero TTS, faster-whisper STT), which are opaque: whatever they       *)
(* return or raise is a nondeterministic choice.                           *)
(*                                                                         *)
(* Both handlers are coroutines (async def) run by one event loop          *)
(* (uvicorn.run(app), line 89).  A coroutine gives up the loop only at an  *)
(* await; the only await of the file is `await file.read()` on line 69.    *)
(* The variable `running` is the request that holds the loop.              *)
(***************************************************************************)
EXTENDS Integers, Sequences, FiniteSets, TLC

\* ------------------------------------------------------------------ bounds
NumReqs == 2      \* requests in flight in SpecConc
MaxBody == 2      \* longest upload body, in bytes
MaxSegs == 2      \* most segments the STT model yields
MaxSamples == 2   \* most samples the TTS model returns

Reqs == 1..NumReqs
\* The names of the temporary directory: one for every request, so that no
\* request fails for want of a name (the real names have eight random
\* characters).
Names == 1..NumReqs
Bytes == {0, 1}

\* Sequences over S of length at most n.
SeqsUpTo(S, n) == UNION {[1..k -> S] : k \in 0..n}

\* ------------------------------------------------------------- characters
\* Text is a sequence of one-character strings, so that str.strip() and +=
\* are modelled by what they do to the characters.
WS == {" ", "\t", "\n"}
Hello == <<"h", "e", "l", "l", "o">>
World == <<"w", "o", "r", "l", "d">>
HelloWorld == <<"h", "e", "l", "l", "o", " ", "w", "o", "r", "l", "d">>
SegTexts == {<< >>, <<" ">>, <<" ", "a">>, <<"b", "\n">>, Hello, World}

\* ------------------------------------------------------------------ values
NoErr == [msg |-> "<none>", raised |-> FALSE]
Err(m) == [msg |-> m, raised |-> TRUE]
NoName == 0
NoFile == [exists |-> FALSE, disk |-> << >>, buf |-> << >>, open |-> FALSE]
NoResp == [status |-> 0, media_type |-> "<none>", body |-> << >>]
NoReq == [kind |-> "<none>"]
\* An optional value: None, or Some(x).
None == << >>
Some(x) == <<x>>
The(o) == o[1]

\* The inputs a specification draws from: upload bodies, segment lists,
\* language tags, error messages, sample arrays, sample rates.
RichIn ==
    [bodies |-> SeqsUpTo(Bytes, MaxBody),
     seglists |-> SeqsUpTo(SegTexts, MaxSegs),
     langs |-> {"ru", "en"},
     msgs |-> {"e1", "e2"},
     samples |-> SeqsUpTo({-1, 0, 1}, MaxSamples),
     rates |-> {8000, 48000}]
SmallIn ==
    [bodies |-> {<<0>>, <<1>>},
     seglists |-> {<<Hello, World>>},
     langs |-> {"ru"},
     msgs |-> {"e1"},
     samples |-> {<<1>>},
     rates |-> {48000}]

VARIABLES
    running,    \* the request that holds the event loop, 0 when none does
    pc,         \* pc[r]: where request r's handler stands
    request,    \* request[r]: what the client sent (TTSRequest or UploadFile)
    files,      \* the temporary directory: name -> file
    tmp,        \* tmp[r]: the name of r's NamedTemporaryFile (tmp.name)
    content,    \* local `content` (line 69)
    tmp_path,   \* local `tmp_path` (line 71)
    segments,   \* local `segments`: what the lazy generator has left to yield
    info,       \* local `info.language`
    text,       \* local `text` (lines 75-77)
    audio,      \* local `audio_np` (line 52)
    buffer,     \* local `buffer` (line 54)
    raised,     \* the exception in flight in r's handler
    response,   \* what the client of r receives
    produced,   \* history: every segment the STT model had for r
    sttRead,    \* history: the bytes the STT model found at the path
    hist        \* history: the steps r's handler has taken, in order

vars == <<running, pc, request, files, tmp, content, tmp_path, segments, info,
          text, audio, buffer, raised, response, produced, sttRead, hist>>

Init ==
    /\ running = 0
    /\ pc = [r \in Reqs |-> "idle"]
    /\ request = [r \in Reqs |-> NoReq]
    /\ files = [n \in Names |-> NoFile]
    /\ tmp = [r \in Reqs |-> NoName]
    /\ content = [r \in Reqs |-> None]
    /\ tmp_path = [r \in Reqs |-> NoName]
    /\ segments = [r \in Reqs |-> << >>]
    /\ info = [r \in Reqs |-> "<none>"]
    /\ text = [r \in Reqs |-> << >>]
    /\ audio = [r \in Reqs |-> None]
    /\ buffer = [r \in Reqs |-> << >>]
    /\ raised = [r \in Reqs |-> NoErr]
    /\ response = [r \in Reqs |-> NoResp]
    /\ produced = [r \in Reqs |-> None]
    /\ sttRead = [r \in Reqs |-> None]
    /\ hist = [r \in Reqs |-> << >>]

Log(r, e) == hist' = [hist EXCEPT ![r] = Append(@, e)]

\* ------------------------------------------------------------ pure helpers
\* str(e) of the caught exception.
Str(e) == e.msg

\* Faulty variant: the detail is a fixed text, the message is dropped.
HTTPExceptionGeneric(code, detail) ==
    [status |-> code, media_type |-> "application/json",
     body |-> [detail |-> "Internal Server Error"]]
\* HTTPException(status_code=500, detail=str(e)), as the client sees it.
HTTPException(code, detail) ==
    [status |-> code, media_type |-> "application/json",
     body |-> [detail |-> detail]]

\* str.strip(): drop leading, then trailing, whitespace.
RECURSIVE LStrip(_)
LStrip(s) == IF s # << >> /\ Head(s) \in WS THEN LStrip(Tail(s)) ELSE s
RECURSIVE RStrip(_)
RStrip(s) ==
    IF s # << >> /\ s[Len(s)] \in WS THEN RStrip(SubSeq(s, 1, Len(s) - 1)) ELSE s
\* Faulty variant: lstrip() in place of strip().
StripLeadingOnly(s) == LStrip(s)
Strip(s) == RStrip(LStrip(s))

\* sf.write(buffer, audio_np, sample_rate, format='WAV'): a RIFF header that
\* carries the rate and the payload length, then one 16-bit PCM value per
\* sample (float amplitude scaled by 0x7FFF).
WavHeaderLen == 3
Pcm16(x) == x * 32767
WavBytes(samples, rate) ==
    <<"RIFF", rate, Len(samples)>> \o [i \in 1..Len(samples) |-> Pcm16(samples[i])]

\* Faulty variant: a path opened without O_EXCL, so that an existing file
\* can be taken over.
AnyName(fs) == Names
\* tempfile.NamedTemporaryFile opens with O_CREAT | O_EXCL: only a name that
\* does not exist in the directory can be taken.
FreshNames(fs) == {n \in Names : ~fs[n].exists}

\* os.remove(path): unlinks the file, FileNotFoundError when there is none.
OsRemove(fs, path) ==
    IF path \in Names /\ fs[path].exists
    THEN [files |-> [fs EXCEPT ![path] = NoFile], err |-> NoErr]
    ELSE [files |-> fs, err |-> Err("FileNotFoundError")]

\* Faulty variants of the statement order: os.remove before the loop; return
\* without os.remove; stt_model.transcribe inside the with block.
SuccRemoveFirst(l) ==
    CASE l = "create" -> "read"
      [] l = "reading" -> "write"
      [] l = "write" -> "close"
      [] l = "close" -> "stt"
      [] l = "stt" -> "remove"
      [] l = "remove" -> "drain"
      [] l = "drain" -> "return"
SuccReturnFirst(l) ==
    CASE l = "create" -> "read"
      [] l = "reading" -> "write"
      [] l = "write" -> "close"
      [] l = "close" -> "stt"
      [] l = "stt" -> "drain"
      [] l = "drain" -> "return"
      [] l = "remove" -> "return"
SuccSttInsideWith(l) ==
    CASE l = "create" -> "read"
      [] l = "reading" -> "write"
      [] l = "write" -> "stt"
      [] l = "stt" -> "close"
      [] l = "close" -> "drain"
      [] l = "drain" -> "remove"
      [] l = "remove" -> "return"
\* The statement order of transcribe_audio (lines 68-82): the step that
\* follows each step when it raises nothing.
Succ(l) ==
    CASE l = "create" -> "read"
      [] l = "reading" -> "write"
      [] l = "write" -> "close"
      [] l = "close" -> "stt"
      [] l = "stt" -> "drain"
      [] l = "drain" -> "remove"
      [] l = "remove" -> "return"

\* ------------------------------------------------ transcribe_audio, 64-86
Goto(r, l) == pc' = [pc EXCEPT ![r] = l]
Raise(r, m) == raised' = [raised EXCEPT ![r] = Err(m)]

\* The router hands an upload to transcribe_audio (line 65).
RecvTranscribe(r, In) ==
    /\ running = 0
    /\ pc[r] = "idle"
    /\ \E b \in In.bodies :
         request' = [request EXCEPT ![r] = [kind |-> "transcribe", file |-> b]]
    /\ running' = r
    /\ Goto(r, "create")
    /\ Log(r, "recv")
    /\ UNCHANGED <<files, tmp, content, tmp_path, segments, info, text, audio,
                   buffer, raised, response, produced, sttRead>>

\* Line 68: tempfile.NamedTemporaryFile(delete=False, suffix=".wav").
CreateTmp(r, In) ==
    /\ running = r
    /\ pc[r] = "create"
    /\ \/ \E n \in FreshNames(files) :
            /\ files' = [files EXCEPT ![n] =
                           [exists |-> TRUE, disk |-> << >>, buf |-> << >>,
                            open |-> TRUE]]
            /\ tmp' = [tmp EXCEPT ![r] = n]
            /\ Goto(r, Succ("create"))
            /\ Log(r, "create")
            /\ UNCHANGED raised
       \/ \E m \in In.msgs :
            /\ Raise(r, m)
            /\ Goto(r, "except")
            /\ Log(r, "raise")
            /\ UNCHANGED <<files, tmp>>
    /\ UNCHANGED <<running, request, content, tmp_path, segments, info, text,
                   audio, buffer, response, produced, sttRead>>

\* Line 69, `await file.read()`: the coroutine is suspended and the loop is
\* free for another request.
AwaitRead(r) ==
    /\ running = r
    /\ pc[r] = "read"
    /\ running' = 0
    /\ Goto(r, "reading")
    /\ UNCHANGED <<request, files, tmp, content, tmp_path, segments, info, text,
                   audio, buffer, raised, response, produced, sttRead, hist>>

\* Line 69 resumed: the whole body is in `content`, or the read raised and
\* the with block is left through its __exit__ (close).
ReadUpload(r, In) ==
    /\ running = 0
    /\ pc[r] = "reading"
    /\ running' = r
    /\ \/ /\ content' = [content EXCEPT ![r] = Some(request[r].file)]
          /\ Goto(r, Succ("reading"))
          /\ Log(r, "read")
          /\ UNCHANGED raised
       \/ \E m \in In.msgs :
            /\ Raise(r, m)
            /\ Goto(r, "close")
            /\ Log(r, "raise")
            /\ UNCHANGED content
    /\ UNCHANGED <<request, files, tmp, tmp_path, segments, info, text, audio,
                   buffer, response, produced, sttRead>>

\* Lines 70-71: tmp.write(content) is a buffered write: any prefix may reach
\* the disk at once, the rest waits in the buffer for the flush of close().
\* A write that raises (a full disk) has put a proper prefix on the disk.
WriteTmp(r, In) ==
    /\ running = r
    /\ pc[r] = "write"
    /\ LET c == The(content[r])
           n == tmp[r]
           put(k) == [files EXCEPT ![n].disk = @ \o SubSeq(c, 1, k),
                                   ![n].buf = SubSeq(c, k + 1, Len(c))]
       IN \/ \E k \in 0..Len(c) :
               /\ files' = put(k)
               /\ tmp_path' = [tmp_path EXCEPT ![r] = n]
               /\ Goto(r, Succ("write"))
               /\ Log(r, "write")
               /\ UNCHANGED raised
          \/ \E m \in In.msgs, k \in 0..(Len(c) - 1) :
               /\ files' = put(k)
               /\ Raise(r, m)
               /\ Goto(r, "close")
               /\ Log(r, "raise")
               /\ UNCHANGED tmp_path
    /\ UNCHANGED <<running, request, tmp, content, segments, info, text, audio,
                   buffer, response, produced, sttRead>>

\* Line 68, leaving the with block: the file is closed, which flushes the
\* buffer.  delete=False: the file stays.  A flush that raises replaces the
\* exception in flight, and the descriptor is closed all the same.
CloseTmp(r, In) ==
    /\ running = r
    /\ pc[r] = "close"
    /\ LET n == tmp[r]
           f == files[n]
       IN \/ /\ files' = [files EXCEPT ![n] =
                            [exists |-> TRUE, disk |-> f.disk \o f.buf,
                             buf |-> << >>, open |-> FALSE]]
             /\ Goto(r, IF raised[r].raised THEN "except" ELSE Succ("close"))
             /\ Log(r, "close")
             /\ UNCHANGED raised
          \/ \E m \in In.msgs, k \in 0..(Len(f.buf) - 1) :
               /\ files' = [files EXCEPT ![n] =
                              [exists |-> TRUE,
                               disk |-> f.disk \o SubSeq(f.buf, 1, k),
                               buf |-> << >>, open |-> FALSE]]
               /\ Raise(r, m)
               /\ Goto(r, "except")
               /\ Log(r, "raise")
    /\ UNCHANGED <<running, request, tmp, content, tmp_path, segments, info,
                   text, audio, buffer, response, produced, sttRead>>

\* Line 73: stt_model.transcribe(tmp_path, beam_size=5).  The model opens the
\* path and decodes what is on the disk; it answers with a lazy sequence of
\* segments and the language, or raises.  Line 75: text = "".
SttTranscribe(r, In) ==
    /\ running = r
    /\ pc[r] = "stt"
    /\ LET p == tmp_path[r]
           found == IF p \in Names /\ files[p].exists
                    THEN Some(files[p].disk) ELSE None
       IN /\ sttRead' = [sttRead EXCEPT ![r] = found]
          /\ \/ /\ found # None
                /\ \E segs \in In.seglists, lang \in In.langs :
                     /\ segments' = [segments EXCEPT ![r] = segs]
                     /\ produced' = [produced EXCEPT ![r] = Some(segs)]
                     /\ info' = [info EXCEPT ![r] = lang]
                /\ text' = [text EXCEPT ![r] = << >>]
                /\ Goto(r, Succ("stt"))
                /\ Log(r, "stt")
                /\ UNCHANGED raised
             \/ \E m \in In.msgs :
                  /\ Raise(r, m)
                  /\ Goto(r, "except")
                  /\ hist' = [hist EXCEPT ![r] = @ \o <<"stt", "raise">>]
                  /\ UNCHANGED <<segments, produced, info, text>>
    /\ UNCHANGED <<running, request, files, tmp, content, tmp_path, audio,
                   buffer, response>>

\* Lines 76-77: one turn of `for segment in segments`: the generator yields
\* its next segment and text += segment.text + " ", or it is exhausted and
\* the loop ends, or it raises.
DrainSegment(r, In) ==
    /\ running = r
    /\ pc[r] = "drain"
    /\ \/ /\ segments[r] # << >>
          /\ text' = [text EXCEPT ![r] = (@ \o Head(segments[r])) \o <<" ">>]
          /\ segments' = [segments EXCEPT ![r] = Tail(@)]
          /\ Log(r, "segment")
          /\ UNCHANGED <<pc, raised>>
       \/ /\ segments[r] = << >>
          /\ Goto(r, Succ("drain"))
          /\ Log(r, "drained")
          /\ UNCHANGED <<text, segments, raised>>
       \/ \E m \in In.msgs :
            /\ Raise(r, m)
            /\ Goto(r, "except")
            /\ Log(r, "raise")
            /\ UNCHANGED <<text, segments>>
    /\ UNCHANGED <<running, request, files, tmp, content, tmp_path, info, audio,
                   buffer, response, produced, sttRead>>

\* Line 80: os.remove(tmp_path).
RemoveTmp(r, In) ==
    /\ running = r
    /\ pc[r] = "remove"
    /\ \/ LET res == OsRemove(files, tmp_path[r])
          IN /\ files' = res.files
             /\ raised' = [raised EXCEPT ![r] = res.err]
             /\ Goto(r, IF res.err.raised THEN "except" ELSE Succ("remove"))
             /\ Log(r, IF res.err.raised THEN "raise" ELSE "remove")
       \/ \E m \in In.msgs :
            /\ Raise(r, m)
            /\ Goto(r, "except")
            /\ Log(r, "raise")
            /\ UNCHANGED files
    /\ UNCHANGED <<running, request, tmp, content, tmp_path, segments, info,
                   text, audio, buffer, response, produced, sttRead>>

\* Faulty variant: a return that can also be taken inside the loop.
ReturnPartial(r) ==
    /\ running = r
    /\ pc[r] \in {"drain", "return"}
    /\ response' = [response EXCEPT ![r] =
                      [status |-> 200, media_type |-> "application/json",
                       body |-> [text |-> Strip(text[r]), language |-> info[r]]]]
    /\ running' = 0
    /\ Goto(r, "done")
    /\ Log(r, "return")
    /\ UNCHANGED <<request, files, tmp, content, tmp_path, segments, info, text,
                   audio, buffer, raised, produced, sttRead>>
\* Line 82: return {"text": text.strip(), "language": info.language}.
ReturnResult(r) ==
    /\ running = r
    /\ pc[r] = "return"
    /\ response' = [response EXCEPT ![r] =
                      [status |-> 200, media_type |-> "application/json",
                       body |-> [text |-> Strip(text[r]), language |-> info[r]]]]
    /\ running' = 0
    /\ Goto(r, "done")
    /\ Log(r, "return")
    /\ UNCHANGED <<request, files, tmp, content, tmp_path, segments, info, text,
                   audio, buffer, raised, produced, sttRead>>

\* Lines 84-86: except Exception as e: raise HTTPException(500, str(e)).
ExceptTranscribe(r) ==
    /\ running = r
    /\ pc[r] = "except"
    /\ response' = [response EXCEPT ![r] = HTTPException(500, Str(raised[r]))]
    /\ running' = 0
    /\ Goto(r, "done")
    /\ Log(r, "except")
    /\ UNCHANGED <<request, files, tmp, content, tmp_path, segments, info, text,
                   audio, buffer, raised, produced, sttRead>>

\* -------------------------------------------------- generate_audio, 39-62
\* The router hands a validated TTSRequest to generate_audio (line 40).
RecvGenerate(r, In) ==
    /\ running = 0
    /\ pc[r] = "idle"
    /\ \E sr \in In.rates :
         request' = [request EXCEPT ![r] =
                       [kind |-> "generate", sample_rate |-> sr]]
    /\ running' = r
    /\ Goto(r, "tts")
    /\ Log(r, "recv")
    /\ UNCHANGED <<files, tmp, content, tmp_path, segments, info, text, audio,
                   buffer, raised, response, produced, sttRead>>

\* Lines 44-52: model.apply_tts(...) returns a 1-D tensor of samples, or
\* raises (unknown speaker, text it cannot process); audio.numpy().
ApplyTts(r, In) ==
    /\ running = r
    /\ pc[r] = "tts"
    /\ \/ /\ \E a \in In.samples : audio' = [audio EXCEPT ![r] = Some(a)]
          /\ Goto(r, "encode")
          /\ Log(r, "tts")
          /\ UNCHANGED raised
       \/ \E m \in In.msgs :
            /\ Raise(r, m)
            /\ Goto(r, "gexcept")
            /\ Log(r, "raise")
            /\ UNCHANGED audio
    /\ UNCHANGED <<running, request, files, tmp, content, tmp_path, segments,
                   info, text, buffer, response, produced, sttRead>>

\* Lines 54-56: sf.write into a BytesIO, seek(0).  An encoder that raises
\* may have written part of the container into the buffer.
EncodeWav(r, In) ==
    /\ running = r
    /\ pc[r] = "encode"
    /\ LET wav == WavBytes(The(audio[r]), request[r].sample_rate)
       IN \/ /\ buffer' = [buffer EXCEPT ![r] = wav]
             /\ Goto(r, "respond")
             /\ Log(r, "encode")
             /\ UNCHANGED raised
          \/ \E m \in In.msgs, k \in 0..(Len(wav) - 1) :
               /\ buffer' = [buffer EXCEPT ![r] = SubSeq(wav, 1, k)]
               /\ Raise(r, m)
               /\ Goto(r, "gexcept")
               /\ Log(r, "raise")
    /\ UNCHANGED <<running, request, files, tmp, content, tmp_path, segments,
                   info, text, audio, response, produced, sttRead>>

\* Line 58: return Response(content=buffer.read(), media_type="audio/wav").
ReturnAudio(r) ==
    /\ running = r
    /\ pc[r] = "respond"
    /\ response' = [response EXCEPT ![r] =
                      [status |-> 200, media_type |-> "audio/wav",
                       body |-> buffer[r]]]
    /\ running' = 0
    /\ Goto(r, "done")
    /\ Log(r, "return")
    /\ UNCHANGED <<request, files, tmp, content, tmp_path, segments, info, text,
                   audio, buffer, raised, produced, sttRead>>

\* Lines 60-62: except Exception as e: raise HTTPException(500, str(e)).
ExceptGenerate(r) ==
    /\ running = r
    /\ pc[r] = "gexcept"
    /\ response' = [response EXCEPT ![r] = HTTPException(500, Str(raised[r]))]
    /\ running' = 0
    /\ Goto(r, "done")
    /\ Log(r, "except")
    /\ UNCHANGED <<request, files, tmp, content, tmp_path, segments, info, text,
                   audio, buffer, raised, produced, sttRead>>

\* ---------------------------------------------------------- specifications
Transcribe(r, In) ==
    \/ RecvTranscribe(r, In)
    \/ CreateTmp(r, In)
    \/ AwaitRead(r)
    \/ ReadUpload(r, In)
    \/ WriteTmp(r, In)
    \/ CloseTmp(r, In)
    \/ SttTranscribe(r, In)
    \/ DrainSegment(r, In)
    \/ RemoveTmp(r, In)
    \/ ReturnResult(r)
    \/ ExceptTranscribe(r)
Generate(r, In) ==
    \/ RecvGenerate(r, In)
    \/ ApplyTts(r, In)
    \/ EncodeWav(r, In)
    \/ ReturnAudio(r)
    \/ ExceptGenerate(r)

\* One request, every input of RichIn.
Next == Transcribe(1, RichIn) \/ Generate(1, RichIn)
Spec == Init /\ [][Next]_vars

\* NumReqs /transcribe requests sharing the event loop and the temporary
\* directory.
NextConc == \E r \in Reqs : Transcribe(r, SmallIn)
SpecConc == Init /\ [][NextConc]_vars

\* os.remove applied to a temporary directory on its own: the directory
\* holds any closed files the handlers can have left there, and the calls
\* made so far are recorded in hist[1], each with its path, what it raised and
\* whether it changed the directory.
MaxReleases == 2
StagedFiles ==
    {NoFile} \cup {[exists |-> TRUE, disk |-> b, buf |-> << >>, open |-> FALSE] :
                     b \in RichIn.bodies}
InitRelease ==
    /\ running = 0
    /\ pc = [r \in Reqs |-> "idle"]
    /\ request = [r \in Reqs |-> NoReq]
    /\ files \in [Names -> StagedFiles]
    /\ tmp = [r \in Reqs |-> NoName]
    /\ content = [r \in Reqs |-> None]
    /\ tmp_path = [r \in Reqs |-> NoName]
    /\ segments = [r \in Reqs |-> << >>]
    /\ info = [r \in Reqs |-> "<none>"]
    /\ text = [r \in Reqs |-> << >>]
    /\ audio = [r \in Reqs |-> None]
    /\ buffer = [r \in Reqs |-> << >>]
    /\ raised = [r \in Reqs |-> NoErr]
    /\ response = [r \in Reqs |-> NoResp]
    /\ produced = [r \in Reqs |-> None]
    /\ sttRead = [r \in Reqs |-> None]
    /\ hist = [r \in Reqs |-> << >>]
ReleaseCall(n) ==
    /\ Len(hist[1]) < MaxReleases
    /\ LET res == OsRemove(files, n)
       IN /\ files' = res.files
          /\ raised' = [raised EXCEPT ![1] = res.err]
          /\ hist' = [hist EXCEPT ![1] =
                        Append(@, [path |-> n, err |-> res.err,
                                   changed |-> res.files # files])]
    /\ UNCHANGED <<running, pc, request, tmp, content, tmp_path, segments, info,
                   text, audio, buffer, response, produced, sttRead>>
NextRelease == \E n \in Names : ReleaseCall(n)
SpecRelease == InitRelease /\ [][NextRelease]_vars

\* ------------------------------------------------------------------ claims
Done(r) == pc[r] = "done"
IsTranscribe(r) == request[r].kind = "transcribe"
IsGenerate(r) == request[r].kind = "generate"
Has(r, e) == \E i \in DOMAIN hist[r] : hist[r][i] = e
Count(r, E) == Cardinality({i \in DOMAIN hist[r] : hist[r][i] \in E})
\* Every occurrence of b in r's history has an a before it.
Before(r, a, b) ==
    \A j \in DOMAIN hist[r] :
        hist[r][j] = b => \E i \in 1..(j - 1) : hist[r][i] = a
\* r created a staged file and has not removed it.
Holds(r) == tmp[r] # NoName /\ ~Has(r, "remove")
StagedFileExists(r) == tmp[r] # NoName /\ files[tmp[r]].exists

\* The segment texts in order, each followed by one space.
RECURSIVE JoinAll(_)
JoinAll(segs) ==
    IF segs = << >> THEN << >> ELSE (Head(segs) \o <<" ">>) \o JoinAll(Tail(segs))
\* t is `full` without its leading and trailing whitespace.
IsStripOf(t, full) ==
    /\ \E i \in 0..Len(full) :
         /\ i + Len(t) <= Len(full)
         /\ SubSeq(full, i + 1, i + Len(t)) = t
         /\ \A k \in 1..i : full[k] \in WS
         /\ \A k \in (i + Len(t) + 1)..Len(full) : full[k] \in WS
    /\ t # << >> => t[1] \notin WS /\ t[Len(t)] \notin WS

\* C1: on every exit path of transcribe_audio the staged temporary file of
\* the request no longer exists when the handler returns or raises.
C1_StagedFileGoneAtExit ==
    \A r \in Reqs : (Done(r) /\ IsTranscribe(r)) => ~StagedFileExists(r)

\* C2: a request whose upload body is empty is answered 500 before the STT
\* model is invoked, and no staged artifact of it exists once it has finished.
C2_EmptyBodyRejected ==
    \A r \in Reqs :
        (IsTranscribe(r) /\ content[r] = Some(<< >>)) =>
            /\ ~Has(r, "stt")
            /\ Done(r) => (response[r].status = 500 /\ ~StagedFileExists(r))

\* C3: in both handlers a request in which any step raised ends with status
\* 500 and the detail is the message of the exception the handler caught; a
\* request answered 200 had no step raise; there is no other status.
C3_FailureIs500WithMessage ==
    \A r \in Reqs :
        Done(r) =>
            /\ response[r].status \in {200, 500}
            /\ Has(r, "raise") =>
                 /\ response[r].status = 500
                 /\ response[r].body = [detail |-> raised[r].msg]
            /\ response[r].status = 200 => ~Has(r, "raise")
C3_Witness ==
    \E r \in Reqs :
        /\ Done(r) /\ IsTranscribe(r)
        /\ Has(r, "segment") /\ Has(r, "raise")
        /\ response[r].status = 500 /\ response[r].body.detail = "e2"

\* C4: a request ends with exactly one response, which is either the complete
\* result (all samples encoded, or every segment the model had plus the
\* language) or an error that carries a detail and nothing else; a request in
\* which a step raised after segments were drained or samples were returned
\* gets the error.
C4_CompleteOrError ==
    \A r \in Reqs :
        /\ Count(r, {"return", "except"}) = (IF Done(r) THEN 1 ELSE 0)
        /\ ~Done(r) => response[r] = NoResp
        /\ Done(r) =>
             \/ /\ response[r].status = 500
                /\ DOMAIN response[r].body = {"detail"}
             \/ /\ response[r].status = 200
                /\ IsTranscribe(r)
                /\ ~Has(r, "raise")
                /\ segments[r] = << >>
                /\ Count(r, {"segment"}) = Len(The(produced[r]))
                /\ DOMAIN response[r].body = {"text", "language"}
                /\ response[r].body.text = Strip(JoinAll(The(produced[r])))
                /\ response[r].body.language = info[r]
             \/ /\ response[r].status = 200
                /\ IsGenerate(r)
                /\ ~Has(r, "raise")
                /\ response[r].media_type = "audio/wav"
                /\ LET a == The(audio[r])
                       b == response[r].body
                   IN /\ Len(b) = WavHeaderLen + Len(a)
                      /\ b[1] = "RIFF"
                      /\ b[2] = request[r].sample_rate
                      /\ b[3] = Len(a)
                      /\ \A i \in 1..Len(a) : b[WavHeaderLen + i] = a[i] * 32767
C4_Witness ==
    \E r \in Reqs :
        /\ Done(r) /\ IsTranscribe(r)
        /\ Has(r, "segment") /\ Has(r, "raise")
        /\ segments[r] # << >>
        /\ text[r] # << >>
        /\ response[r].status = 500

\* C5: the text of a successful /transcribe result is the segment texts in
\* order, each followed by one space, without the leading and trailing
\* whitespace of the whole: "" for no segments, "hello world" for
\* ["hello", "world"].
C5_TextIsStrippedJoin ==
    \A r \in Reqs :
        (Done(r) /\ IsTranscribe(r) /\ response[r].status = 200) =>
            LET segs == The(produced[r])
                t == response[r].body.text
            IN /\ IsStripOf(t, JoinAll(segs))
               /\ segs = << >> => t = << >>
               /\ segs = <<Hello, World>> => t = HelloWorld
C5_Witness ==
    \E r \in Reqs :
        /\ Done(r) /\ response[r].status = 200
        /\ produced[r] = Some(<<Hello, World>>)
        /\ response[r].body.text = HelloWorld
C5_EmptyWitness ==
    \E r \in Reqs :
        /\ Done(r) /\ response[r].status = 200
        /\ produced[r] = Some(<< >>)
        /\ response[r].body.text = << >>

C7_DistinctStagedPaths ==
    /\ \A r1, r2 \in Reqs :
         (r1 # r2 /\ Holds(r1) /\ Holds(r2)) => tmp[r1] # tmp[r2]
    /\ \A r \in Reqs :
         /\ Holds(r) => files[tmp[r]].exists
         /\ (Holds(r) /\ Has(r, "close") /\ ~Has(r, "raise")) =>
              files[tmp[r]].disk = request[r].file
         /\ sttRead[r] # None => sttRead[r] = Some(request[r].file)
C7_Witness ==
    \E r1, r2 \in Reqs :
        /\ r1 # r2
        /\ pc[r1] = "drain" /\ pc[r2] = "reading"
        /\ StagedFileExists(r1) /\ StagedFileExists(r2)
        /\ request[r1].file # request[r2].file
        /\ sttRead[r1] = Some(request[r1].file)

\* C8: the release of a staged artifact is idempotent: after a release the
\* artifact is not at its path, and a second release of the same path raises
\* nothing.
C8_ReleaseIdempotent ==
    LET h == hist[1]
    IN \A k \in DOMAIN h :
         /\ ~h[k].err.raised => ~files[h[k].path].exists
         /\ (k >= 2 /\ h[k - 1].path = h[k].path /\ ~h[k - 1].err.raised) =>
              (~h[k].err.raised /\ ~h[k].changed)

\* C9: when transcribe_audio invokes the STT model, the staged file exists at
\* the path, is closed with nothing left unflushed, and holds exactly the
\* upload's bytes; these are the bytes the model finds.
C9_StagedBytesAtInvocation ==
    \A r \in Reqs :
        /\ pc[r] = "stt" =>
             /\ tmp_path[r] \in Names
             /\ files[tmp_path[r]] =
                  [exists |-> TRUE, disk |-> request[r].file, buf |-> << >>,
                   open |-> FALSE]
        /\ Has(r, "stt") => sttRead[r] = Some(request[r].file)
C9_Witness ==
    \E r \in Reqs :
        /\ Has(r, "stt")
        /\ Len(request[r].file) = 2
        /\ sttRead[r] = Some(request[r].file)

\* C10: from the invocation of the STT model until the segment generator is
\* exhausted, the staged file of the request exists.
C10_FileExistsWhileDraining ==
    \A r \in Reqs :
        pc[r] = "drain" =>
            /\ ~Has(r, "remove")
            /\ tmp_path[r] \in Names
            /\ files[tmp_path[r]].exists
C10_Witness ==
    \E r1, r2 \in Reqs :
        /\ r1 # r2
        /\ pc[r1] = "drain" /\ Has(r1, "segment") /\ segments[r1] # << >>
        /\ Done(r2) /\ Has(r2, "remove")
====
